---- MODULE Spec2Model ----
\* Model of src/app/(public)/png-to-jpg/page.tsx: the PngToJpgPage component.
\* State is the component's React state plus the asynchronous work it has
\* started (FileReader / Image loads in flight, the snackbar timeout) and the
\* drawing calls made on the canvas of the most recent img.onload.
\* snackbar is the rendered value of the state; nullQueued tells that the
\* timeout callback has called setSnackbar(null) and the render that applies
\* it has not run yet.
\* history records the order in which the pending loads were started; only
\* OrderSpec maintains it, Spec and FairSpec leave it at its initial value.
\* Strings are the source's strings without their leading pictograph, which
\* the TLA+ lexer does not accept.
EXTENDS Naturals, Sequences, FiniteSets, Bags, TLC

VARIABLES outputUrl, error, isDragging, snackbar, activeIndex,
          timer, nullQueued, pending, canvasOps, history

vars == <<outputUrl, error, isDragging, snackbar, activeIndex,
          timer, nullQueued, pending, canvasOps, history>>

\* ---------------------------------------------------------------- bounds
\* at most this many accepted files may be between readAsDataURL and img.onload
MaxInflight == 2

\* ------------------------------------------------------------- constants
\* setTimeout(..., 3000): three time units of 1000 ms
SNACKBAR_UNITS == 3
\* canvas.toDataURL(mime, 0.9): the quality factor in tenths
QUALITY_TENTHS == 9

Null == "null"
NoTimer == SNACKBAR_UNITS + 1

JPEG == "image/jpeg"
PNG == "image/png"
HEIC == "image/heic"
WEBP == "image/webp"
DOCX == "application/vnd.openxmlformats-officedocument.wordprocessingml.document"

convertersList ==
  << [label |-> "JPG to PNG", inputMime |-> JPEG, outputMime |-> PNG, downloadExt |-> "png"],
     [label |-> "PNG to JPG", inputMime |-> PNG, outputMime |-> JPEG, downloadExt |-> "jpg"],
     [label |-> "HEIC to JPG", inputMime |-> HEIC, outputMime |-> JPEG, downloadExt |-> "jpg"],
     [label |-> "WebP to JPEG", inputMime |-> WEBP, outputMime |-> JPEG, downloadExt |-> "jpg"],
     [label |-> "Word to JPEG", inputMime |-> DOCX, outputMime |-> JPEG, downloadExt |-> "jpg"],
     [label |-> "JPEG to Word", inputMime |-> JPEG, outputMime |-> DOCX, downloadExt |-> "docx"] >>

\* the array is indexed from 0 in the source
Indices == 0 .. (Len(convertersList) - 1)
converters == [i \in Indices |-> convertersList[i + 1]]

activeConverter == converters[activeIndex]

\* download={`converted.${activeConverter.downloadExt}`}
downloadName == "converted." \o activeConverter.downloadExt

\* ---------------------------------------------------------------- inputs
\* declared types of the files offered to the page: every type of the table
\* and one foreign type
Mimes == {JPEG, PNG, HEIC, WEBP, DOCX, "text/plain"}
\* the page reads one field of a File, its declared type
Files == [type : Mimes]
\* a decoded bitmap is one pixel: fully transparent, an opaque colour, or the
\* same colour at half opacity
Pixels == {"transparent", "red", "semi"}
\* the Image that img.onload reads (img.width, img.height, the bitmap drawn):
\* the declared type says nothing about the bytes, so every decoded image can
\* arrive under every type; oversized tells that its natural dimensions
\* exceed what a canvas can serialize
Images == [pixel : Pixels, oversized : BOOLEAN]
\* e.target.files / e.dataTransfer.files: no file, or the file read as files[0]
FileLists == {<<>>} \cup {<<f>> : f \in Files}

\* --------------------------------------------------------- pure functions
typeMismatchMessage(c) ==
  "Please upload a valid " \o c.inputMime \o " file for " \o c.label

unsupportedMessage ==
  "This conversion requires backend support. Not supported in browser."

\* useEffect(..., [snackbar]): the effect runs only when the rendered value of
\* snackbar changes; its cleanup clears the old timeout, and a new one is armed
\* when the new value is truthy. With an unchanged value the timeout stays as
\* it is, armed or already fired.
snackbarEffect(new) ==
  IF new = snackbar THEN timer
  ELSE IF new # Null /\ new # "" THEN SNACKBAR_UNITS
  ELSE NoTimer

\* document.createElement("canvas"): transparent black, of default size
blankCanvas == [pixel |-> "transparent", oversized |-> FALSE]

\* canvas.width = img.width; canvas.height = img.height: the canvas takes the
\* dimensions of the image and its bitmap is reset
sizeCanvas(canvas, img) == [pixel |-> "transparent", oversized |-> img.oversized]

\* ctx.fillStyle = "white"; ctx.fillRect(0, 0, width, height)
fillWhite(canvas) == [canvas EXCEPT !.pixel = "white"]

\* ctx.drawImage(img, 0, 0): source-over compositing of the bitmap. An opaque
\* source replaces the pixel, a transparent one leaves it, a half-opaque one
\* blends with what is there (over white it gives pink). The canvas is new in
\* every img.onload, so the source meets a blank or a white canvas, or the
\* opaque colour itself.
drawImage(canvas, img) ==
  [canvas EXCEPT !.pixel =
     CASE img.pixel = "transparent" -> canvas.pixel
       [] img.pixel = "red" -> "red"
       [] img.pixel = "semi" /\ canvas.pixel = "transparent" -> "semi"
       [] img.pixel = "semi" /\ canvas.pixel = "white" -> "pink"
       [] img.pixel = "semi" /\ canvas.pixel = "red" -> "red"]

\* canvas.toDataURL(mime, quality): a canvas that cannot be serialized gives
\* "data:,"; JPEG has no alpha and composites the canvas onto opaque black,
\* and the quality applies to it only; any other requested type is encoded as
\* PNG, which keeps the alpha
toDataURL(canvas, mime, quality) ==
  IF canvas.oversized THEN "data:,"
  ELSE IF mime = JPEG
  THEN "data:" \o JPEG \o ";q=0." \o ToString(quality) \o ";"
         \o (CASE canvas.pixel = "transparent" -> "black"
               [] canvas.pixel = "semi" -> "darkred"
               [] OTHER -> canvas.pixel)
  ELSE "data:" \o PNG \o ";" \o canvas.pixel

\* if (activeConverter.outputMime === "image/jpeg")
needsWhiteFill(c) == c.outputMime = JPEG

\* variant: the white fill is issued after the draw
onloadSteps_fillAfterDraw(c, ctxOk) ==
  <<"decode", "size">> \o
  (IF ctxOk
   THEN <<"draw">> \o (IF c.outputMime = JPEG THEN <<"fill">> ELSE <<>>) \o <<"encode", "store">>
   ELSE <<>>)

\* the calls img.onload makes, in order
onloadSteps(c, ctxOk) ==
  <<"decode", "size">> \o
  (IF ctxOk
   THEN (IF needsWhiteFill(c) THEN <<"fill">> ELSE <<>>) \o <<"draw", "encode", "store">>
   ELSE <<>>)

\* the canvas after running the drawing steps of a step list
RECURSIVE paint(_, _, _)
paint(steps, canvas, img) ==
  IF steps = <<>> THEN canvas
  ELSE paint(Tail(steps),
             CASE Head(steps) = "size" -> sizeCanvas(canvas, img)
               [] Head(steps) = "fill" -> fillWhite(canvas)
               [] Head(steps) = "draw" -> drawImage(canvas, img)
               [] OTHER -> canvas,
             img)

\* ------------------------------------------------------------------ Init
Init ==
  /\ outputUrl = Null
  /\ error = Null
  /\ isDragging = FALSE
  /\ snackbar = Null
  /\ activeIndex = 1
  /\ timer = NoTimer
  /\ nullQueued = FALSE
  /\ pending = EmptyBag
  /\ canvasOps = <<>>
  /\ history = [inflight |-> <<>>, overtaken |-> "no"]

\* --------------------------------------------------------------- actions
\* variant: only one of the two document labels is tested
isDocumentPreset_wordInputOnly(c) == c.label = "Word to JPEG"

isDocumentPreset(c) == c.label = "Word to JPEG" \/ c.label = "JPEG to Word"

\* variant: the mismatch branch forgets setOutputUrl(null)
convertFile_keepsResultOnMismatch(file) ==
  IF file.type # activeConverter.inputMime
  THEN /\ snackbar' = typeMismatchMessage(activeConverter)
       /\ timer' = snackbarEffect(typeMismatchMessage(activeConverter))
       /\ nullQueued' = FALSE
       /\ UNCHANGED <<outputUrl, pending>>
  ELSE IF activeConverter.label = "Word to JPEG" \/ activeConverter.label = "JPEG to Word"
  THEN /\ outputUrl' = Null
       /\ snackbar' = unsupportedMessage
       /\ timer' = snackbarEffect(unsupportedMessage)
       /\ nullQueued' = FALSE
       /\ UNCHANGED pending
  ELSE /\ BagCardinality(pending) < MaxInflight
       /\ pending' = pending (+) SetToBag({[file |-> file, preset |-> activeIndex,
                                            stage |-> "reading"]})
       /\ UNCHANGED <<outputUrl, snackbar, timer, nullQueued>>

\* variant: a new accepted file aborts the loads already in flight
convertFile_cancelsEarlier(file) ==
  IF file.type # activeConverter.inputMime
  THEN /\ outputUrl' = Null
       /\ snackbar' = typeMismatchMessage(activeConverter)
       /\ timer' = snackbarEffect(typeMismatchMessage(activeConverter))
       /\ nullQueued' = FALSE
       /\ UNCHANGED pending
  ELSE IF activeConverter.label = "Word to JPEG" \/ activeConverter.label = "JPEG to Word"
  THEN /\ outputUrl' = Null
       /\ snackbar' = unsupportedMessage
       /\ timer' = snackbarEffect(unsupportedMessage)
       /\ nullQueued' = FALSE
       /\ UNCHANGED pending
  ELSE /\ BagCardinality(pending) < MaxInflight
       /\ pending' = SetToBag({[file |-> file, preset |-> activeIndex, stage |-> "reading"]})
       /\ UNCHANGED <<outputUrl, snackbar, timer, nullQueued>>

\* variant: an accepted file clears the preview before its load starts
convertFile_clearsOnAccept(file) ==
  IF file.type # activeConverter.inputMime
  THEN /\ outputUrl' = Null
       /\ snackbar' = typeMismatchMessage(activeConverter)
       /\ timer' = snackbarEffect(typeMismatchMessage(activeConverter))
       /\ nullQueued' = FALSE
       /\ UNCHANGED pending
  ELSE IF activeConverter.label = "Word to JPEG" \/ activeConverter.label = "JPEG to Word"
  THEN /\ outputUrl' = Null
       /\ snackbar' = unsupportedMessage
       /\ timer' = snackbarEffect(unsupportedMessage)
       /\ nullQueued' = FALSE
       /\ UNCHANGED pending
  ELSE /\ BagCardinality(pending) < MaxInflight
       /\ pending' = pending (+) SetToBag({[file |-> file, preset |-> activeIndex,
                                            stage |-> "reading"]})
       /\ outputUrl' = Null
       /\ UNCHANGED <<snackbar, timer, nullQueued>>

\* convertFile(file), without the frame of the handler that calls it. A
\* rejection is rendered at once: a setSnackbar(null) still queued by the
\* timeout callback is applied before the message and leaves no trace, and
\* the effect compares the message with the value rendered before.
convertFile(file) ==
  IF file.type # activeConverter.inputMime
  THEN /\ outputUrl' = Null
       /\ snackbar' = typeMismatchMessage(activeConverter)
       /\ timer' = snackbarEffect(typeMismatchMessage(activeConverter))
       /\ nullQueued' = FALSE
       /\ UNCHANGED pending
  ELSE IF isDocumentPreset(activeConverter)
  THEN /\ outputUrl' = Null
       /\ snackbar' = unsupportedMessage
       /\ timer' = snackbarEffect(unsupportedMessage)
       /\ nullQueued' = FALSE
       /\ UNCHANGED pending
  ELSE /\ BagCardinality(pending) < MaxInflight
       /\ pending' = pending (+) SetToBag({[file |-> file, preset |-> activeIndex,
                                            stage |-> "reading"]})
       /\ UNCHANGED <<outputUrl, snackbar, timer, nullQueued>>

\* const file = e.target.files?.[0]; if (file) convertFile(file)
handleFileChange(files) ==
  /\ IF files # <<>>
     THEN convertFile(files[1])
     ELSE UNCHANGED <<outputUrl, snackbar, timer, nullQueued, pending>>
  /\ UNCHANGED <<error, isDragging, activeIndex, canvasOps>>

\* setIsDragging(false); const file = e.dataTransfer.files?.[0];
\* if (file) convertFile(file)
handleDrop(files) ==
  /\ isDragging' = FALSE
  /\ IF files # <<>>
     THEN convertFile(files[1])
     ELSE UNCHANGED <<outputUrl, snackbar, timer, nullQueued, pending>>
  /\ UNCHANGED <<error, activeIndex, canvasOps>>

handleDragOver ==
  /\ isDragging' = TRUE
  /\ UNCHANGED <<outputUrl, error, snackbar, activeIndex, timer, nullQueued, pending, canvasOps>>

handleDragEnter ==
  /\ isDragging' = TRUE
  /\ UNCHANGED <<outputUrl, error, snackbar, activeIndex, timer, nullQueued, pending, canvasOps>>

handleDragLeave ==
  /\ isDragging' = FALSE
  /\ UNCHANGED <<outputUrl, error, snackbar, activeIndex, timer, nullQueued, pending, canvasOps>>

handleClear ==
  /\ outputUrl' = Null
  /\ error' = Null
  /\ UNCHANGED <<isDragging, snackbar, activeIndex, timer, nullQueued, pending, canvasOps>>

tabClick(index) ==
  /\ activeIndex' = index
  /\ outputUrl' = Null
  /\ error' = Null
  /\ UNCHANGED <<isDragging, snackbar, timer, nullQueued, pending, canvasOps>>

\* reader.onload: a new Image is created and handed the data URL; its decode
\* starts and the callback returns
readerOnload(t) ==
  /\ BagIn(t, pending)
  /\ t.stage = "reading"
  /\ pending' = (pending (-) SetToBag({t})) (+) SetToBag({[t EXCEPT !.stage = "decoding"]})
  /\ UNCHANGED <<outputUrl, error, isDragging, snackbar, activeIndex, timer, nullQueued,
                 canvasOps>>

\* variant: img.onload reads the preset of the current render, not the one
\* captured when the file was submitted
imgOnload_readsCurrentPreset(t, img, ctxOk) ==
  /\ BagIn(t, pending)
  /\ t.stage = "decoding"
  /\ pending' = pending (-) SetToBag({t})
  /\ canvasOps' = onloadSteps(activeConverter, ctxOk)
  /\ IF ctxOk
     THEN outputUrl' = toDataURL(paint(onloadSteps(activeConverter, ctxOk),
                                       blankCanvas, img),
                                 activeConverter.outputMime, QUALITY_TENTHS)
     ELSE UNCHANGED outputUrl
  /\ UNCHANGED <<error, isDragging, snackbar, activeIndex, timer, nullQueued>>

\* variant: a missing drawing context is treated as a failure that clears the result
imgOnload_clearsWithoutContext(t, img, ctxOk) ==
  /\ BagIn(t, pending)
  /\ t.stage = "decoding"
  /\ pending' = pending (-) SetToBag({t})
  /\ canvasOps' = onloadSteps(converters[t.preset], ctxOk)
  /\ IF ctxOk
     THEN outputUrl' = toDataURL(paint(onloadSteps(converters[t.preset], ctxOk),
                                       blankCanvas, img),
                                 converters[t.preset].outputMime, QUALITY_TENTHS)
     ELSE outputUrl' = Null
  /\ UNCHANGED <<error, isDragging, snackbar, activeIndex, timer, nullQueued>>

\* variant: a completed load switches the selection back to its own preset
imgOnload_selectsItsPreset(t, img, ctxOk) ==
  /\ BagIn(t, pending)
  /\ t.stage = "decoding"
  /\ pending' = pending (-) SetToBag({t})
  /\ canvasOps' = onloadSteps(converters[t.preset], ctxOk)
  /\ IF ctxOk
     THEN outputUrl' = toDataURL(paint(onloadSteps(converters[t.preset], ctxOk),
                                       blankCanvas, img),
                                 converters[t.preset].outputMime, QUALITY_TENTHS)
     ELSE UNCHANGED outputUrl
  /\ activeIndex' = t.preset
  /\ UNCHANGED <<error, isDragging, snackbar, timer, nullQueued>>

\* img.onload of an Image whose decode has finished, img being what the bytes
\* decoded to. activeConverter is the one of the render that submitted the
\* file; whatever toDataURL returns is stored.
imgOnload(t, img, ctxOk) ==
  /\ BagIn(t, pending)
  /\ t.stage = "decoding"
  /\ pending' = pending (-) SetToBag({t})
  /\ canvasOps' = onloadSteps(converters[t.preset], ctxOk)
  /\ IF ctxOk
     THEN outputUrl' = toDataURL(paint(onloadSteps(converters[t.preset], ctxOk),
                                       blankCanvas, img),
                                 converters[t.preset].outputMime, QUALITY_TENTHS)
     ELSE UNCHANGED outputUrl
  /\ UNCHANGED <<error, isDragging, snackbar, activeIndex, timer, nullQueued>>

\* the bytes are not a decodable bitmap: img.onload never runs (no onerror handler)
imgDecodeFails(t) ==
  /\ BagIn(t, pending)
  /\ t.stage = "decoding"
  /\ pending' = pending (-) SetToBag({t})
  /\ UNCHANGED <<outputUrl, error, isDragging, snackbar, activeIndex, timer, nullQueued,
                 canvasOps>>

\* one time unit passes while the snackbar timeout is armed
Tick ==
  /\ timer # NoTimer
  /\ timer > 0
  /\ timer' = timer - 1
  /\ UNCHANGED <<outputUrl, error, isDragging, snackbar, activeIndex, nullQueued, pending,
                 canvasOps>>

\* the timeout callback: setSnackbar(null) is queued and the callback returns;
\* the timeout has fired and is no longer armed
snackbarTimeout ==
  /\ timer = 0
  /\ timer' = NoTimer
  /\ nullQueued' = TRUE
  /\ UNCHANGED <<outputUrl, error, isDragging, snackbar, activeIndex, pending, canvasOps>>

\* the render scheduled by the timeout callback: the queued null becomes the
\* rendered value and the effect runs for it
snackbarRender ==
  /\ nullQueued
  /\ snackbar' = Null
  /\ timer' = snackbarEffect(Null)
  /\ nullQueued' = FALSE
  /\ UNCHANGED <<outputUrl, error, isDragging, activeIndex, pending, canvasOps>>

Next ==
  \/ \E files \in FileLists : handleFileChange(files) /\ UNCHANGED history
  \/ \E files \in FileLists : handleDrop(files) /\ UNCHANGED history
  \/ handleDragOver /\ UNCHANGED history
  \/ handleDragEnter /\ UNCHANGED history
  \/ handleDragLeave /\ UNCHANGED history
  \/ handleClear /\ UNCHANGED history
  \/ \E i \in Indices : tabClick(i) /\ UNCHANGED history
  \/ \E t \in BagToSet(pending) : readerOnload(t) /\ UNCHANGED history
  \/ \E t \in BagToSet(pending), img \in Images, ctxOk \in BOOLEAN :
       imgOnload(t, img, ctxOk) /\ UNCHANGED history
  \/ \E t \in BagToSet(pending) : imgDecodeFails(t) /\ UNCHANGED history
  \/ Tick /\ UNCHANGED history
  \/ snackbarTimeout /\ UNCHANGED history
  \/ snackbarRender /\ UNCHANGED history

Spec == Init /\ [][Next]_vars

\* ------------------------------------------------- loads in starting order
\* reader.readAsDataURL(file) was called for this file: it passed both checks
\* of convertFile
startsLoad(file) ==
  file.type = activeConverter.inputMime /\ ~isDocumentPreset(activeConverter)

\* overtaken speaks of the result on show: it is "no" again once the result
\* is cleared
shown(h) == [h EXCEPT !.overtaken = IF outputUrl' = Null THEN "no" ELSE @]

\* the loads in flight, oldest first; passedBy is "no" unless the result
\* stored last was stored by a load started after this one, and then it tells
\* whether that younger load was submitted under the same preset
recordSubmit(files) ==
  IF files # <<>> /\ startsLoad(files[1])
  THEN [history EXCEPT !.inflight =
          Append(@, [task |-> [file |-> files[1], preset |-> activeIndex,
                               stage |-> "reading"],
                     passedBy |-> "no"])]
  ELSE shown(history)

\* reader.onload of the i-th load in flight ran
recordReader(i) == [history EXCEPT !.inflight[i].task.stage = "decoding"]

removeAt(seq, i) == SubSeq(seq, 1, i - 1) \o SubSeq(seq, i + 1, Len(seq))

\* img.onload of the i-th load in flight ran. When it stores a result, every
\* older load has been passed by it and no younger one has been passed any
\* more. overtaken tells whether the result on show replaced a different
\* result that a younger load had stored, and whether the two loads were
\* submitted under the same preset.
recordLoad(i, ctxOk) ==
  [inflight |-> removeAt([j \in DOMAIN history.inflight |->
                            IF ~ctxOk THEN history.inflight[j]
                            ELSE IF j < i
                            THEN [history.inflight[j] EXCEPT
                                    !.passedBy = IF history.inflight[i].task.preset
                                                      = history.inflight[j].task.preset
                                                 THEN "same preset"
                                                 ELSE "other preset"]
                            ELSE [history.inflight[j] EXCEPT !.passedBy = "no"]], i),
   overtaken |-> IF ~ctxOk THEN history.overtaken
                 ELSE IF outputUrl = Null \/ outputUrl' = outputUrl THEN "no"
                 ELSE history.inflight[i].passedBy]

recordFail(i) == [history EXCEPT !.inflight = removeAt(@, i)]

NextOrdered ==
  \/ \E files \in FileLists : handleFileChange(files) /\ history' = recordSubmit(files)
  \/ \E files \in FileLists : handleDrop(files) /\ history' = recordSubmit(files)
  \/ handleDragOver /\ UNCHANGED history
  \/ handleDragEnter /\ UNCHANGED history
  \/ handleDragLeave /\ UNCHANGED history
  \/ handleClear /\ history' = shown(history)
  \/ \E i \in Indices : tabClick(i) /\ history' = shown(history)
  \/ \E i \in DOMAIN history.inflight :
       readerOnload(history.inflight[i].task) /\ history' = recordReader(i)
  \/ \E i \in DOMAIN history.inflight, img \in Images, ctxOk \in BOOLEAN :
       imgOnload(history.inflight[i].task, img, ctxOk) /\ history' = recordLoad(i, ctxOk)
  \/ \E i \in DOMAIN history.inflight :
       imgDecodeFails(history.inflight[i].task) /\ history' = recordFail(i)
  \/ Tick /\ UNCHANGED history
  \/ snackbarTimeout /\ UNCHANGED history
  \/ snackbarRender /\ UNCHANGED history

OrderSpec == Init /\ [][NextOrdered]_vars

\* the loads in flight are exactly the pending ones
OrderOK ==
  /\ Len(history.inflight) = BagCardinality(pending)
  /\ \A i \in DOMAIN history.inflight : BagIn(history.inflight[i].task, pending)

TypeOK ==
  /\ activeIndex \in Indices
  /\ isDragging \in BOOLEAN
  /\ error = Null
  /\ timer \in 0 .. NoTimer
  /\ nullQueued \in BOOLEAN
  /\ nullQueued => (snackbar # Null /\ timer = NoTimer)
  /\ BagCardinality(pending) <= MaxInflight

\* the snackbar timeout is a browser timer: time passes, an expired timeout
\* runs its callback and a scheduled render runs; user events and loads carry
\* no fairness
FairSpec ==
  /\ Spec
  /\ WF_vars(Tick /\ UNCHANGED history)
  /\ WF_vars(snackbarTimeout /\ UNCHANGED history)
  /\ WF_vars(snackbarRender /\ UNCHANGED history)

\* ---------------------------------------------------------------- claims
\* a file arrives through the picker or through a drop
submit(f) == handleFileChange(<<f>>) \/ handleDrop(<<f>>)

\* the presets whose files are decoded in the browser
ImagePresets == {i \in Indices : ~isDocumentPreset(converters[i])}

\* what a completed conversion is expected to store, by submit-time preset
\* and decoded image: for a JPEG output the bitmap over white at quality 0.9,
\* otherwise the bitmap as it is, and the empty data URL when the canvas
\* cannot be serialized
expected ==
  [p \in ImagePresets, img \in Images |->
     IF img.oversized THEN "data:,"
     ELSE IF converters[p].outputMime = "image/jpeg"
     THEN (CASE img.pixel = "transparent" -> "data:image/jpeg;q=0.9;white"
             [] img.pixel = "red" -> "data:image/jpeg;q=0.9;red"
             [] img.pixel = "semi" -> "data:image/jpeg;q=0.9;pink")
     ELSE (CASE img.pixel = "transparent" -> "data:image/png;transparent"
             [] img.pixel = "red" -> "data:image/png;red"
             [] img.pixel = "semi" -> "data:image/png;semi")]

\* the data URLs whose encoded type is the given one
encodingsOf(mime) ==
  IF mime = "image/jpeg"
  THEN {"data:image/jpeg;q=0.9;white", "data:image/jpeg;q=0.9;red",
        "data:image/jpeg;q=0.9;pink", "data:image/jpeg;q=0.9;black",
        "data:image/jpeg;q=0.9;darkred"}
  ELSE IF mime = "image/png"
  THEN {"data:image/png;transparent", "data:image/png;red", "data:image/png;semi",
        "data:image/png;white", "data:image/png;pink"}
  ELSE {}

Notices == {unsupportedMessage} \cup {typeMismatchMessage(converters[i]) : i \in Indices}

\* C1: for every preset P and file F whose declared type is not P.inputMime,
\* submitting F under P leaves the result absent, sets the notice to the
\* TypeMismatch message of P and starts no decode.
C1_TypeMismatchRejects ==
  [][(\E f \in Files : f.type # activeConverter.inputMime /\ submit(f))
       => /\ outputUrl' = Null
          /\ snackbar' = "Please upload a valid " \o activeConverter.inputMime
                           \o " file for " \o activeConverter.label
          /\ pending' = pending]_vars

\* C1 witness: a mismatch notice was just set (its timeout is fresh) after an
\* earlier conversion had stored a result, and the result is gone.
C1_Witness ==
  /\ snackbar = typeMismatchMessage(activeConverter)
  /\ timer = SNACKBAR_UNITS
  /\ outputUrl = Null
  /\ canvasOps # <<>> /\ canvasOps[Len(canvasOps)] = "store"

\* C2 as stated: under a document preset every submitted file, matching or
\* not, yields the fixed UnsupportedConversion notice and no result.
C2_Original ==
  [][\A f \in Files :
       (activeConverter.label \in {"Word to JPEG", "JPEG to Word"} /\ submit(f))
         => /\ outputUrl' = Null
            /\ snackbar' = unsupportedMessage]_vars

\* C2 amended: under a document preset a file whose declared type matches the
\* preset's input type yields the UnsupportedConversion notice, no result and
\* no decode; a file of any other type yields the TypeMismatch notice.
C2_UnsupportedWhenTypeMatches ==
  [][\A f \in Files :
       (activeConverter.label \in {"Word to JPEG", "JPEG to Word"} /\ submit(f))
         => /\ outputUrl' = Null
            /\ pending' = pending
            /\ snackbar' = IF f.type = activeConverter.inputMime
                           THEN unsupportedMessage
                           ELSE typeMismatchMessage(activeConverter)]_vars

\* C2 witness: the unsupported notice is showing, freshly set, under "JPEG to Word".
C2_Witness ==
  /\ snackbar = unsupportedMessage
  /\ timer = SNACKBAR_UNITS
  /\ activeConverter.label = "JPEG to Word"
  /\ outputUrl = Null

\* C3 as stated: a tab click leaves result and notice absent and starts no
\* conversion.
C3_TabClickClearsResultAndNotice ==
  [][\A i \in Indices :
       tabClick(i) => (outputUrl' = Null /\ snackbar' = Null /\ pending' = pending)]_vars

\* C4 as stated: a manual reset leaves result and notice absent and the
\* selection unchanged.
C4_ClearResetsResultAndNotice ==
  [][handleClear
       => (outputUrl' = Null /\ snackbar' = Null /\ activeIndex' = activeIndex)]_vars

\* C5 as stated: a conversion whose decode and encode complete ends with the
\* result present and the notice absent.
C5_SuccessClearsNotice ==
  [][\A t \in BagToSet(pending), img \in Images :
       imgOnload(t, img, TRUE) => (outputUrl' # Null /\ snackbar' = Null)]_vars

\* C6 as stated: every notice is eventually cleared: a state showing notice m
\* is followed by a state in which the notice is absent or has been replaced
\* by another. Fails when a rejection with the text on show arrives between
\* the timeout callback and its render: the text stays, with no timeout armed.
C6_NoticeEventuallyCleared ==
  \A m \in Notices : (snackbar = m) ~> (snackbar # m)

\* C7 as stated: every attempt that does not end in success (type mismatch,
\* document preset, no drawing context, decode that does not complete) ends
\* with the result absent and a notice set.
C7_FailureSetsNotice ==
  [][/\ \A f \in Files :
          (submit(f) /\ pending' = pending) => (outputUrl' = Null /\ snackbar' # Null)
     /\ \A t \in BagToSet(pending), img \in Images :
          (imgOnload(t, img, FALSE) \/ imgDecodeFails(t))
            => (outputUrl' = Null /\ snackbar' # Null)]_vars

C9_NoContextIsNoOp ==
  [][\A t \in BagToSet(pending), img \in Images :
       imgOnload(t, img, FALSE) => UNCHANGED <<outputUrl, snackbar, activeIndex>>]_vars

\* C9 witness: the last img.onload stopped after sizing the canvas while a
\* result and a notice were both present, and both are still there.
C9_Witness ==
  /\ canvasOps = <<"decode", "size">>
  /\ outputUrl # Null
  /\ snackbar # Null

\* C10: a completed conversion runs decode, size, white fill (exactly when the
\* submit-time preset's output type is image/jpeg), draw, encode at quality
\* 0.9, store, in that order, and what it stores shows the order: for JPEG the
\* bitmap lies over the white fill (white where it was transparent, pink where
\* it was half opaque, its own colour where opaque), for PNG the bitmap is
\* unchanged with no white in it; a canvas too large to serialize stores "data:,".
C10_StepOrder ==
  [][\A t \in BagToSet(pending), img \in Images :
       imgOnload(t, img, TRUE)
         => /\ canvasOps' = IF converters[t.preset].outputMime = "image/jpeg"
                            THEN <<"decode", "size", "fill", "draw", "encode", "store">>
                            ELSE <<"decode", "size", "draw", "encode", "store">>
            /\ outputUrl' = expected[t.preset, img]]_vars

\* C10 witness: a transparent PNG has been converted to a white JPEG, with the
\* fill recorded before the draw.
C10_Witness ==
  /\ outputUrl = "data:image/jpeg;q=0.9;white"
  /\ canvasOps = <<"decode", "size", "fill", "draw", "encode", "store">>

\* C11: a second accepted submission cancels no load already in flight, and
\* every img.onload that draws stores its own result over the current one,
\* also when a load started after it has already stored a result: the result
\* held is that of the load that completed last.
C11_LastCompletionWins ==
  [][/\ (pending' # pending /\ \E f \in Files : submit(f))
          => /\ \A t \in BagToSet(pending) : CopiesIn(t, pending') >= CopiesIn(t, pending)
             /\ BagCardinality(pending') = BagCardinality(pending) + 1
     /\ \A i \in DOMAIN history.inflight, img \in Images :
          (pending' # pending /\ imgOnload(history.inflight[i].task, img, TRUE))
            => /\ outputUrl' = expected[history.inflight[i].task.preset, img]
               /\ BagCardinality(pending') = BagCardinality(pending) - 1]_vars

\* C11 witness: both loads are done and the result on show is the red PNG of a
\* load that was started first and completed after a younger load of the same
\* preset had stored a different result.
C11_Witness ==
  /\ pending = EmptyBag
  /\ history.inflight = <<>>
  /\ history.overtaken = "same preset"
  /\ outputUrl = "data:image/png;red"

\* C12 as stated: every notice set by a rejection has the full 3 time units
\* before a timeout may clear it, whatever was showing before, the same text
\* included.
C12_RejectionGetsFullDuration ==
  [][(\E f \in Files :
        (f.type # activeConverter.inputMime
           \/ activeConverter.label \in {"Word to JPEG", "JPEG to Word"})
        /\ submit(f))
       => timer' = SNACKBAR_UNITS]_vars

\* C13: submitting an accepted file under a supported image preset changes
\* neither the result nor the notice nor its timeout, and a result only ever
\* appears through an img.onload that draws.
C13_AcceptedSubmitKeepsPreview ==
  [][/\ (\E f \in Files :
           /\ f.type = activeConverter.inputMime
           /\ activeConverter.label \notin {"Word to JPEG", "JPEG to Word"}
           /\ submit(f))
          => UNCHANGED <<outputUrl, snackbar, timer>>
     /\ (outputUrl' # outputUrl /\ outputUrl' # Null)
          => \E t \in BagToSet(pending), img \in Images : imgOnload(t, img, TRUE)]_vars

\* C13 witness: a result and a fresh notice are showing while as many loads
\* are in flight as may be; the result was stored after the rejection, by a
\* load that has left, so one of the loads in flight was submitted while
\* both were showing.
C13_Witness ==
  /\ BagCardinality(pending) = MaxInflight
  /\ outputUrl # Null
  /\ snackbar # Null
  /\ timer = SNACKBAR_UNITS

\* C14: the selection starts at 1 with result and notice absent, always
\* indexes the six-entry preset list, and changes only in a tab click.
C14_SelectionOnlyByTab ==
  /\ activeIndex = 1 /\ outputUrl = Null /\ snackbar = Null
  /\ [](activeIndex \in 0 .. 5 /\ Len(convertersList) = 6)
  /\ [][activeIndex' # activeIndex => \E i \in 0 .. 5 : tabClick(i)]_vars

\* C14 witness: the selection has been moved to the last preset, and a
\* rejection, a completed conversion and a reset have happened since.
C14_Witness ==
  /\ activeIndex = 5
  /\ snackbar = unsupportedMessage
  /\ canvasOps # <<>>
  /\ outputUrl = Null
====
